---- MODULE Spec2Model ----
(***************************************************************************)
(* Model of scripts/simple-client.py: the telemetry bridge that decodes    *)
(* avionics packets, reconstructs the mission clock (ClockTracker), pairs  *)
(* the two IMU packet halves (MessageBuilder) and republishes them.        *)
(*                                                                         *)
(* Representation notes.                                                   *)
(*  - A 32 bit device tick is held as a pair <<hi, lo>> of 16 bit limbs,   *)
(*    because the model checker's integers are 32 bit signed.              *)
(*  - A time value is an exact rational [w, n, d] = w + n/d, w a limb pair *)
(*    and n/d a reduced proper fraction, counted in units of 1/clockfreq   *)
(*    seconds.  The Python floats are idealised as exact reals.            *)
(*  - An optional value (Python None or a value) is <<>> or <<value>>.     *)
(*  - A payload is its length plus the fields its bytes decode to.         *)
(***************************************************************************)
EXTENDS Integers, Sequences, FiniteSets, TLC

\* ---------------------------------------------------------------- bounds
MaxSteps == 4

\* ------------------------------------------------------------- constants
Pow8 == 2 ^ 8
Pow16 == Pow8 * Pow8
clockfreq == 200000000
RQ_SIZE == 32
RQ_STATE_SIZE == 16
STATE_PACKET == 0
IMU_SET_A_PACKET == 1
IMU_SET_B_PACKET == 2
IgnitionStateMax == 5
ControlStateMax == 7

None == <<>>
Some(x) == <<x>>
Get(o) == o[1]

\* args.node: the configured target node (default of --node)
args_node == "RQB"

\* ------------------------------------------------------ number helpers
RECURSIVE GCD(_, _)
GCD(x, y) == IF y = 0 THEN x ELSE GCD(y, x % y)

LCM(x, y) == (x \div GCD(x, y)) * y

\* (timestamp + 2**32 - last_timestamp) % 2**32 on 16 bit limbs
TickDiff(t, l) ==
    LET lo     == (t[2] + Pow16 - l[2]) % Pow16
        borrow == IF t[2] < l[2] THEN 1 ELSE 0
        hi     == (t[1] + Pow16 - l[1] - borrow) % Pow16
    IN  <<hi, lo>>

\* a variant that takes the distance without the 8 bit wrap
SeqDiffNoWrap(seq, last) == IF seq >= last THEN seq - last ELSE last - seq

\* (seq + 2**8 - last_seq) % 2**8
SeqDiff(seq, last) == (seq + Pow8 - last) % Pow8

\* ticks / seq_diff as an exact time value (in units of 1/clockfreq s)
TimeDiv(ticks, s) ==
    LET qhi == ticks[1] \div s
        cur == (ticks[1] % s) * Pow16 + ticks[2]
        qlo == cur \div s
        r   == cur % s
        g   == GCD(r, s)
    IN  [w |-> <<qhi, qlo>>, n |-> r \div g, d |-> s \div g]

\* a variant that assigns ("=") where the code accumulates ("+=")
TimeAssign(x, y) == y

\* self._mcu_time += diff
TimeAdd(x, y) ==
    LET L     == LCM(x.d, y.d)
        num   == x.n * (L \div x.d) + y.n * (L \div y.d)
        carry == num \div L
        n2    == num % L
        g     == GCD(n2, L)
        lo    == x.w[2] + y.w[2] + carry
        hi    == x.w[1] + y.w[1] + (lo \div Pow16)
    IN  [w |-> <<hi, lo % Pow16>>, n |-> n2 \div g, d |-> L \div g]

\* x <= y on time values
TimeLeq(x, y) ==
    LET L == LCM(x.d, y.d)
    IN  \/ x.w[1] < y.w[1]
        \/ x.w[1] = y.w[1] /\ x.w[2] < y.w[2]
        \/ x.w = y.w /\ x.n * (L \div x.d) <= y.n * (L \div y.d)

\* time.monotonic() seconds as a time value
HostTime(sec) ==
    LET t == sec * clockfreq
    IN  [w |-> <<t \div Pow16, t % Pow16>>, n |-> 0, d |-> 1]

\* ------------------------------------------------------------ inputs
\* args.count: None, or the message-count limit of a bounded run
CountLimit == 2

Seqs == {1, 254}
Ticks == {<<0, 5>>, <<65535, 65530>>}
HostSeconds == {0, 2}

\* bytes 6.. of a payload, under both fixed layouts
\* (RQ_STATE_FORMAT "<BBIBBhhhh" and RQ_FORMAT "<BBIhhhhhhhhhff")
Body(ign, ctl, k) ==
    [ignition |-> ign, control |-> ctl, sense |-> <<800 * k, 1000 * k, 8, 0>>,
     imu |-> [acc_x |-> k, acc_y |-> 0, acc_z |-> -k,
              gyr_x |-> 1, gyr_y |-> k, gyr_z |-> 0,
              mag_x |-> 0, mag_y |-> 0, mag_z |-> k,
              pressure |-> 1000 + k, temperature |-> 20 + k]]

Bodies == {Body(4, 2, 1), Body(9, 2, 2), Body(4, 8, 3)}

Payload(len, seq, ptype, timestamp, body) ==
    [len |-> len, seq |-> seq, packet_type |-> ptype,
     timestamp |-> timestamp, body |-> body]

\* well-formed IMU packets, with exactly sized payloads
ImuPayloads ==
    { Payload(RQ_SIZE, s, t, ts, bd) :
        s \in Seqs, t \in {IMU_SET_A_PACKET, IMU_SET_B_PACKET},
        ts \in Ticks, bd \in {Body(4, 2, 1), Body(9, 2, 2)} }

\* STATE packets, with known and with out-of-range enum bytes
StatePayloads ==
    { Payload(RQ_STATE_SIZE, 1, STATE_PACKET, <<0, 5>>, bd) : bd \in Bodies }

\* short payloads, trailing bytes, unknown and high-nibble type bytes
OddPayloads ==
    { Payload(l, 1, t, <<0, 5>>, Body(4, 2, 1)) :
        l \in {1, 20, 40}, t \in {STATE_PACKET, IMU_SET_A_PACKET} }
    \cup { Payload(RQ_SIZE, 254, t, <<0, 5>>, Body(4, 2, 1)) : t \in {3, 17} }

NoMessage == [kind |-> "none"]
Garbage == [kind |-> "garbage"]
Envelope(node, data) == [kind |-> "json", node |-> node, data |-> data]

\* what socket.recv() may deliver: every packet from the target node, and
\* from another node the IMU packets of one body and one STATE packet
Envelopes ==
    { Envelope("RQB", p) : p \in ImuPayloads \cup StatePayloads \cup OddPayloads }
    \cup { Envelope("FDB", p) :
             p \in { q \in ImuPayloads : q.body = Body(9, 2, 2) }
                   \cup { q \in StatePayloads : q.body = Body(4, 2, 1) } }

\* ------------------------------------------------------------- state
VARIABLES
    clock_tracker,  \* ClockTracker: _last_timestamp, _last_host, _last_seq, _mcu_time
    self_a,         \* MessageBuilder._a
    self_b,         \* MessageBuilder._b
    args_count,     \* args.count
    step,           \* main: loop counter
    pc,             \* main: "loop", "done" (break) or "crashed" (uncaught exception)
    exc,            \* the uncaught exception, if any
    incoming,       \* main: the message of the latest socket.recv()
    monotonic,      \* the host clock: the latest value of time.monotonic()
    sent,           \* number of messages given to socket.send_string so far
    out,            \* messages given to socket.send_string in the latest iteration
    logged,         \* records logged in the latest iteration
    q,              \* SerialSocket._q: the JSON messages put and not yet got
    reader,         \* SerialSocket._reader thread: "none", "running" or "dead"
    lines,          \* the lines self._conn.readline() has returned so far
    delivered,      \* the messages SerialSocket.recv() has returned so far
    twin            \* a second ClockTracker, fed the same ticks at other host times

\* the fields of the serial source, and the second tracker
serial_vars == <<q, reader, lines, delivered>>

vars == <<clock_tracker, self_a, self_b, args_count, step, pc, exc,
          incoming, monotonic, sent, out, logged, serial_vars, twin>>

\* ------------------------------------------------------- ClockTracker
\* ClockTracker.__init__
ClockTracker_init(host) ==
    [last_timestamp |-> None, last_host |-> None, last_seq |-> None,
     mcu_time |-> HostTime(host)]

\* a variant that advances the mission time by the host time elapsed
ClockTracker_feed_by_host(self, host, timestamp, seq) ==
    LET first == self.last_timestamp = None
        mcu   == IF first THEN self.mcu_time
                 ELSE TimeAdd(self.mcu_time, HostTime(host - Get(self.last_host)))
    IN  [exc |-> None,
         self |-> [last_timestamp |-> Some(timestamp), last_host |-> Some(host),
                   last_seq |-> Some(seq), mcu_time |-> mcu],
         ret |-> Some(mcu)]

\* a variant whose first call measures from tick 0 and sequence 0
ClockTracker_feed_from_zero(self, host, timestamp, seq) ==
    LET first    == self.last_timestamp = None
        last_ts  == IF first THEN <<0, 0>> ELSE Get(self.last_timestamp)
        last_sq  == IF first THEN 0 ELSE Get(self.last_seq)
        seq_diff == SeqDiff(seq, last_sq)
        mcu      == TimeAdd(self.mcu_time, TimeDiv(TickDiff(timestamp, last_ts), seq_diff))
    IN  IF seq_diff = 0
        THEN [exc |-> Some("ZeroDivisionError"), self |-> self, ret |-> None]
        ELSE [exc |-> None,
              self |-> [last_timestamp |-> Some(timestamp), last_host |-> Some(host),
                        last_seq |-> Some(seq), mcu_time |-> mcu],
              ret |-> Some(mcu)]

\* ClockTracker.feed: the exception raised (if any), the tracker afterwards
\* and the value returned
ClockTracker_feed(self, host, timestamp, seq) ==
    LET first    == self.last_timestamp = None
        seq_diff == SeqDiff(seq, Get(self.last_seq))
        diff     == TimeDiv(TickDiff(timestamp, Get(self.last_timestamp)), seq_diff)
        mcu      == IF first THEN self.mcu_time ELSE TimeAdd(self.mcu_time, diff)
    IN  IF ~first /\ seq_diff = 0
        THEN [exc |-> Some("ZeroDivisionError"), self |-> self, ret |-> None]
        ELSE [exc |-> None,
              self |-> [last_timestamp |-> Some(timestamp),
                        last_host |-> Some(host),
                        last_seq |-> Some(seq),
                        mcu_time |-> mcu],
              ret |-> Some(mcu)]

\* ----------------------------------------------------- MessageBuilder
\* ina226_voltage(v) = v * 0.00125, in microvolts
ina226_voltage(v) == v * 1250

\* ina3221_voltage(v) = v / 8 * 0.008, in microvolts
ina3221_voltage(v) == v * 1000

\* the result of a MessageBuilder call: the exception raised (if any),
\* the builder's fields afterwards, the messages sent and the records logged
Result(e, ct, a, b, o, l) ==
    [exc |-> e, clock_tracker |-> ct, a |-> a, b |-> b, out |-> o, logged |-> l]

\* a variant without the node filter
NodeAny(node, self_node) == TRUE

\* _feed_imu_messages: "if node == self._node"
NodeMatches(node, self_node) == node = self_node

\* _feed_imu_messages: data = dict(acc=..., gyr=..., mag=..., ...)
imu_data(imu) ==
    [acc |-> [x |-> imu.acc_x, y |-> imu.acc_y, z |-> imu.acc_z],
     gyr |-> [x |-> imu.gyr_x, y |-> imu.gyr_y, z |-> imu.gyr_z],
     mag |-> [x |-> imu.mag_x, y |-> imu.mag_y, z |-> imu.mag_z],
     temperature |-> imu.temperature,
     pressure |-> imu.pressure]

\* a variant that drops the slot when a packet of the other set arrives
LatchAOrClear(a, packet_type, data) ==
    IF packet_type = IMU_SET_A_PACKET THEN Some(data) ELSE None

\* a variant that writes the slot for a packet of either set
LatchEvery(a, packet_type, data) == Some(data)

\* _feed_imu_messages: "case PacketType.IMU_SET_A_PACKET: self._a = data"
LatchA(a, packet_type, data) ==
    IF packet_type = IMU_SET_A_PACKET THEN Some(data) ELSE a

\* a variant that latches every IMU packet, whatever its set
LatchAny(b, packet_type, data) == Some(data)

\* _feed_imu_messages: "case PacketType.IMU_SET_B_PACKET: self._b = data"
LatchB(b, packet_type, data) ==
    IF packet_type = IMU_SET_B_PACKET THEN Some(data) ELSE b

\* a variant that sends the two halves under each other's key
PublishSwapped(mcu_timestamp, timestamp, a, b) ==
    IF a /= None /\ b /= None
    THEN << [timestamp |-> mcu_timestamp, raw_timestamp |-> timestamp,
             a |-> Get(b), b |-> Get(a)] >>
    ELSE <<>>

\* _feed_imu_messages: the message sent when both slots are set
Publish(mcu_timestamp, timestamp, a, b) ==
    IF a /= None /\ b /= None
    THEN << [timestamp |-> mcu_timestamp, raw_timestamp |-> timestamp,
             a |-> Get(a), b |-> Get(b)] >>
    ELSE <<>>

\* a variant that tests the node before it feeds the tracker
feed_imu_messages_node_first(self, host, node, seq, packet_type, timestamp, imu) ==
    LET fed  == ClockTracker_feed(self.clock_tracker, host, timestamp, seq)
        data == imu_data(imu)
        a2   == LatchA(self.a, packet_type, data)
        b2   == LatchB(self.b, packet_type, data)
    IN  IF ~NodeMatches(node, self.node)
        THEN Result(None, self.clock_tracker, self.a, self.b, <<>>, <<>>)
        ELSE IF fed.exc /= None
        THEN Result(fed.exc, fed.self, self.a, self.b, <<>>, <<>>)
        ELSE Result(None, fed.self, a2, b2,
                    Publish(Get(fed.ret), timestamp, a2, b2), <<>>)

\* MessageBuilder._feed_imu_messages
feed_imu_messages(self, host, node, seq, packet_type, timestamp, imu) ==
    LET fed  == ClockTracker_feed(self.clock_tracker, host, timestamp, seq)
        data == imu_data(imu)
        a2   == LatchA(self.a, packet_type, data)
        b2   == LatchB(self.b, packet_type, data)
    IN  IF fed.exc /= None
        THEN Result(fed.exc, fed.self, self.a, self.b, <<>>, <<>>)
        ELSE IF ~NodeMatches(node, self.node)
        THEN Result(None, fed.self, self.a, self.b, <<>>, <<>>)
        ELSE Result(None, fed.self, a2, b2,
                    Publish(Get(fed.ret), timestamp, a2, b2), <<>>)

\* a variant that unpacks the whole payload, not its first size bytes
UnpacksExact(len, size) == len = size

\* struct.unpack(FORMAT, data[:SIZE]) succeeds: the slice has SIZE bytes
Unpacks(len, size) == len >= size

\* a variant that feeds the STATE packet's tick and sequence to the tracker
feed_state_tracking(self, data) ==
    LET fed == ClockTracker_feed(self.clock_tracker, 0, data.timestamp, data.seq)
    IN  Result(fed.exc, fed.self, self.a, self.b, <<>>,
               << <<"IgnitionState", data.body.ignition>> >>)

\* MessageBuilder.feed, case PacketType.STATE_PACKET
feed_state(self, data) ==
    LET st == data.body
        same(e, l) == Result(e, self.clock_tracker, self.a, self.b, <<>>, l)
        l1 == << <<"IgnitionState", st.ignition>> >>
        l2 == Append(l1, <<"ControlState", st.control>>)
        l6 == l2 \o << ina226_voltage(st.sense[1]), ina3221_voltage(st.sense[2]),
                       ina3221_voltage(st.sense[3]), ina3221_voltage(st.sense[4]) >>
    IN  IF ~Unpacks(data.len, RQ_STATE_SIZE) THEN same(Some("struct.error"), <<>>)
        ELSE IF st.ignition > IgnitionStateMax THEN same(Some("ValueError"), <<>>)
        ELSE IF st.control > ControlStateMax THEN same(Some("ValueError"), l1)
        ELSE same(None, l6)

\* MessageBuilder.feed
MessageBuilder_feed(self, host, node, data) ==
    LET same(e) == Result(e, self.clock_tracker, self.a, self.b, <<>>, <<>>)
    IN  IF data.len < 2 THEN same(Some("ValueError"))
        ELSE IF data.packet_type \notin
                  {STATE_PACKET, IMU_SET_A_PACKET, IMU_SET_B_PACKET}
        THEN same(Some("ValueError"))
        ELSE IF data.packet_type = STATE_PACKET THEN feed_state(self, data)
        ELSE IF ~Unpacks(data.len, RQ_SIZE) THEN same(Some("struct.error"))
        ELSE feed_imu_messages(self, host, node, data.seq, data.packet_type,
                               data.timestamp, data.body.imu)

\* the MessageBuilder of the run, as the record the operators above take
Builder ==
    [clock_tracker |-> clock_tracker, node |-> args_node, a |-> self_a, b |-> self_b]

\* --------------------------------------------------------------- main
\* main up to the loop, with the subscribe socket as the source (no --serial)
Init ==
    /\ q = <<>> /\ reader = "none" /\ lines = <<>> /\ delivered = <<>>
    /\ twin = None
    /\ monotonic \in HostSeconds
    /\ clock_tracker = ClockTracker_init(monotonic)
    /\ self_a = None
    /\ self_b = None
    /\ args_count \in {None, Some(CountLimit)}
    /\ step = 0
    /\ pc = "loop"
    /\ exc = None
    /\ incoming = NoMessage
    /\ sent = 0
    /\ out = <<>>
    /\ logged = <<>>

\* main: "if args.count is not None and args.count <= step: break"
Break ==
    /\ pc = "loop"
    /\ args_count /= None /\ Get(args_count) <= step
    /\ pc' = "done"
    /\ UNCHANGED <<clock_tracker, self_a, self_b, args_count, step, exc,
                   incoming, monotonic, sent, out, logged, serial_vars, twin>>

\* a variant that compares with "<" where the code has "<="
ContinuesPastLimit == pc = "loop" /\ ~(args_count /= None /\ Get(args_count) < step)

\* main: the loop goes on to socket.recv()
Continues == pc = "loop" /\ ~(args_count /= None /\ Get(args_count) <= step)

\* main: one iteration whose message json.loads rejects
RecvGarbage ==
    /\ Continues /\ step < MaxSteps
    /\ incoming' = Garbage
    /\ logged' = <<"Can't parse incoming">>
    /\ out' = <<>>
    /\ step' = step + 1
    /\ UNCHANGED <<clock_tracker, self_a, self_b, args_count, pc, exc,
                   monotonic, sent, serial_vars, twin>>

\* main: one iteration whose message is a JSON envelope
RecvEnvelope ==
    /\ Continues /\ step < MaxSteps
    /\ \E msg \in Envelopes, host \in HostSeconds :
         /\ host >= monotonic
         /\ LET r == MessageBuilder_feed(Builder, host, msg.node, msg.data)
            IN  /\ incoming' = msg
                /\ monotonic' = host
                /\ clock_tracker' = r.clock_tracker
                /\ self_a' = r.a
                /\ self_b' = r.b
                /\ out' = r.out
                /\ sent' = sent + Len(r.out)
                /\ logged' = r.logged
                /\ exc' = r.exc
                /\ pc' = IF r.exc = None THEN "loop" ELSE "crashed"
                /\ step' = IF r.exc = None THEN step + 1 ELSE step
    /\ UNCHANGED <<args_count, serial_vars, twin>>

Next == Break \/ RecvGarbage \/ RecvEnvelope

Spec == Init /\ [][Next]_vars

\* ------------------------------------------------- reading the steps
\* the message is an IMU packet that decodes: MessageBuilder.feed passes
\* it to _feed_imu_messages, which calls ClockTracker.feed
IsImu(msg) ==
    /\ msg.kind = "json"
    /\ msg.data.len >= RQ_SIZE
    /\ msg.data.packet_type \in {IMU_SET_A_PACKET, IMU_SET_B_PACKET}

\* the message is a STATE packet (its type byte is 0)
IsState(msg) ==
    /\ msg.kind = "json"
    /\ msg.data.len >= 2
    /\ msg.data.packet_type = STATE_PACKET

\* the step is a loop iteration (it received a message), not the break
Iterated == step' = step + 1 \/ pc' = "crashed"

\* the step is an iteration in which ClockTracker.feed was called
FeedCalled == Iterated /\ IsImu(incoming')

\* ... and returned, so that the latch code ran
FeedReturned == FeedCalled /\ exc' = None

\* ------------------------------------------- exact time arithmetic
\* y - x on time values, for x <= y
TimeSub(y, x) ==
    LET L      == LCM(x.d, y.d)
        num    == y.n * (L \div y.d) - x.n * (L \div x.d)
        borrow == IF num < 0 THEN 1 ELSE 0
        n2     == num + borrow * L
        g      == GCD(n2, L)
        lo     == y.w[2] - x.w[2] - borrow
        b2     == IF lo < 0 THEN 1 ELSE 0
    IN  [w |-> <<y.w[1] - x.w[1] - b2, lo + b2 * Pow16>>,
         n |-> n2 \div g, d |-> L \div g]

\* x * k on a time value, for a natural number k
TimeTimes(x, k) ==
    LET fr  == x.n * k
        lo  == x.w[2] * k + (fr \div x.d)
        rem == fr % x.d
        g   == GCD(rem, x.d)
    IN  [w |-> <<x.w[1] * k + (lo \div Pow16), lo % Pow16>>,
         n |-> rem \div g, d |-> x.d \div g]

\* (t + delta) mod 2^32 on limb pairs
WrapAdd(t, delta) ==
    LET lo == t[2] + delta[2]
    IN  <<(t[1] + delta[1] + (lo \div Pow16)) % Pow16, lo % Pow16>>

\* ------------------------------------------------------------ claims
\* C1: every ClockTracker.feed call that returns (the first, or one with
\* seqDelta /= 0) returns a value greater than or equal to the value the
\* previous call returned: estimatedMissionTime never decreases.
C1_Monotonic ==
    [][FeedReturned =>
         /\ TimeLeq(clock_tracker.mcu_time, clock_tracker'.mcu_time)
         /\ (out' /= <<>> => out'[1].timestamp = clock_tracker'.mcu_time)]_vars

\* C1 witness: a later feed call has returned a value above every seed
C1_Witness ==
    /\ clock_tracker.last_timestamp /= None
    /\ \A h \in HostSeconds : ~TimeLeq(clock_tracker.mcu_time, HostTime(h))
    /\ out /= <<>>

\* C2 (as claimed): a feed call whose deviceSeq equals the stored lastSeq
\* fails with InvalidSequence, not with a division by zero, and leaves the
\* tracker as it was.
C2_InvalidSequence ==
    [][(FeedCalled /\ clock_tracker.last_seq = Some(incoming'.data.seq)) =>
         /\ exc' = Some("InvalidSequence")
         /\ clock_tracker' = clock_tracker]_vars

\* C3: a feed call after the first, with seqDelta /= 0, advances the mission
\* time by exactly tickDelta / seqDelta (in units of 1/clockfreq seconds),
\* tickDelta and seqDelta being the distances modulo 2^32 and 2^8 from the
\* stored tick and sequence to the packet's; lastTick = 4294967290,
\* lastSeq = 254 followed by deviceTick = 5, deviceSeq = 1 advances it by 11/3.
C3_Elapsed ==
    [][(FeedReturned /\ clock_tracker.last_timestamp /= None) =>
         LET lastTick  == Get(clock_tracker.last_timestamp)
             lastSeq   == Get(clock_tracker.last_seq)
             p         == incoming'.data
             seqDelta  == CHOOSE sd \in 1..255 : (lastSeq + sd) % 256 = p.seq
             advance   == TimeSub(clock_tracker'.mcu_time, clock_tracker.mcu_time)
             tickDelta == TimeTimes(advance, seqDelta)
         IN  /\ TimeLeq(clock_tracker.mcu_time, clock_tracker'.mcu_time)
             /\ tickDelta.n = 0
             /\ tickDelta.w[1] < Pow16
             /\ WrapAdd(lastTick, tickDelta.w) = p.timestamp
             /\ (lastTick = <<65535, 65530>> /\ lastSeq = 254
                   /\ p.timestamp = <<0, 5>> /\ p.seq = 1
                 => /\ tickDelta.w = <<0, 11>>
                    /\ seqDelta = 3
                    /\ advance = [w |-> <<0, 3>>, n |-> 2, d |-> 3])]_vars

\* C3 witness: from the seed 0, tick 4294967290 / seq 254 and then tick 5 /
\* seq 1 were fed: both counters wrapped and the mission time is 11/3
C3_Witness ==
    /\ clock_tracker.last_timestamp = Some(<<0, 5>>)
    /\ clock_tracker.last_seq = Some(1)
    /\ clock_tracker.mcu_time = [w |-> <<0, 3>>, n |-> 2, d |-> 3]

\* the message is an IMU packet of the given set from the target node
\* (resp. from another node)
FromTarget(msg) == msg.node = args_node

IsSet(msg, packet_type) == IsImu(msg) /\ msg.data.packet_type = packet_type

\* the sensor fields of a packet, as the published record holds them
SampleOf(msg) ==
    LET f == msg.data.body.imu
    IN  [acc |-> [x |-> f.acc_x, y |-> f.acc_y, z |-> f.acc_z],
         gyr |-> [x |-> f.gyr_x, y |-> f.gyr_y, z |-> f.gyr_z],
         mag |-> [x |-> f.mag_x, y |-> f.mag_y, z |-> f.mag_z],
         temperature |-> f.temperature, pressure |-> f.pressure]

\* C4: starting from empty latches nothing is published until a set-A and a
\* set-B packet of the target node have both been fed: a set-A packet fed
\* while latchedB is empty publishes nothing, however often it is repeated,
\* and the set-B packet that follows publishes exactly one sample.
C4_Pairing ==
    [][/\ (self_a' = None \/ self_b' = None) => (sent' = 0 /\ out' = <<>>)
       /\ (FeedReturned /\ FromTarget(incoming')
             /\ IsSet(incoming', IMU_SET_A_PACKET) /\ self_b = None)
          => (out' = <<>> /\ sent' = sent /\ self_b' = None)
       /\ (FeedReturned /\ FromTarget(incoming')
             /\ IsSet(incoming', IMU_SET_B_PACKET)
             /\ self_a /= None /\ self_b = None)
          => (Len(out') = 1 /\ sent' = 1)]_vars

\* C4 witness: the third iteration fed the set-B packet that completes the
\* first pair, and exactly one sample is out
C4_Witness ==
    /\ step = 3
    /\ sent = 1
    /\ Len(out) = 1
    /\ IsSet(incoming, IMU_SET_B_PACKET)
    /\ self_a /= None /\ self_b = Some(SampleOf(incoming))

\* C5: a latched slot is never cleared, not by a pairing either: once both
\* slots are latched, a set-B packet of the target node publishes a sample
\* whose a-half is the data of the set-A packet fed last (self_a changes
\* only when a set-A packet of the target node is fed, to that packet's data).
C5_LatchPersistence ==
    [][/\ (self_a /= None => self_a' /= None)
       /\ (self_b /= None => self_b' /= None)
       /\ (FeedReturned /\ FromTarget(incoming')
             /\ IsSet(incoming', IMU_SET_A_PACKET))
          => self_a' = Some(SampleOf(incoming'))
       /\ ~(FeedReturned /\ FromTarget(incoming')
              /\ IsSet(incoming', IMU_SET_A_PACKET))
          => self_a' = self_a
       /\ (FeedReturned /\ FromTarget(incoming')
             /\ IsSet(incoming', IMU_SET_B_PACKET)
             /\ self_a /= None /\ self_b /= None)
          => (Len(out') = 1 /\ out'[1].a = Get(self_a)
              /\ out'[1].b = SampleOf(incoming'))]_vars

\* C5 witness: after two earlier emissions a third set-B packet publishes a
\* sample whose a-half is the old set-A data, differing from its own b-half
C5_Witness ==
    /\ sent >= 3
    /\ IsSet(incoming, IMU_SET_B_PACKET)
    /\ Len(out) = 1
    /\ out[1].a = Get(self_a)
    /\ out[1].a /= out[1].b

\* C6: an IMU packet from a node other than the target node is fed to the
\* ClockTracker like any IMU packet (lastTick, lastSeq and the mission time
\* are updated) but leaves both latches unchanged and publishes nothing.
C6_OtherNode ==
    [][(FeedCalled /\ ~FromTarget(incoming')) =>
         /\ self_a' = self_a /\ self_b' = self_b
         /\ out' = <<>> /\ sent' = sent
         /\ exc' = None =>
              /\ clock_tracker'.last_timestamp = Some(incoming'.data.timestamp)
              /\ clock_tracker'.last_seq = Some(incoming'.data.seq)
              /\ clock_tracker' =
                   ClockTracker_feed(clock_tracker, monotonic',
                                     incoming'.data.timestamp,
                                     incoming'.data.seq).self]_vars

\* C6 witness: with both latches set, a packet of another node has moved
\* the tracker's tick, sequence and mission time
C6_Witness ==
    /\ IsImu(incoming) /\ ~FromTarget(incoming)
    /\ exc = None
    /\ self_a /= None /\ self_b /= None
    /\ clock_tracker.last_timestamp = Some(incoming.data.timestamp)
    /\ clock_tracker.mcu_time.n /= 0

\* the payload does not decode: too short for the header or for the fixed
\* layout of its type, or of an unknown type
Malformed(data) ==
    \/ data.len < 2
    \/ data.packet_type \notin {STATE_PACKET, IMU_SET_A_PACKET, IMU_SET_B_PACKET}
    \/ data.packet_type = STATE_PACKET /\ data.len < RQ_STATE_SIZE
    \/ data.packet_type /= STATE_PACKET /\ data.len < RQ_SIZE

\* C7 (as claimed): a packet that fails to decode is skipped: the loop goes
\* on to the next envelope, with tracker and latches unchanged.
C7_MalformedSkipped ==
    [][(Iterated /\ incoming'.kind = "json" /\ Malformed(incoming'.data)) =>
         /\ pc' = "loop" /\ step' = step + 1
         /\ clock_tracker' = clock_tracker
         /\ self_a' = self_a /\ self_b' = self_b]_vars

\* C8: a STATE packet is only logged: whatever its node and the state before,
\* it publishes nothing and leaves the tracker and both latches unchanged.
C8_StateOnlyLogged ==
    [][(Iterated /\ IsState(incoming')) =>
         /\ out' = <<>> /\ sent' = sent
         /\ clock_tracker' = clock_tracker
         /\ self_a' = self_a /\ self_b' = self_b
         /\ (exc' = None => logged' /= <<>>)]_vars

\* C8 witness: with the tracker fed and both latches set, a STATE packet
\* with ignitionState 4 and controlState 2 was logged and nothing sent
C8_Witness ==
    /\ IsState(incoming) /\ exc = None
    /\ logged[1] = <<"IgnitionState", 4>> /\ logged[2] = <<"ControlState", 2>>
    /\ out = <<>>
    /\ self_a /= None /\ self_b /= None
    /\ clock_tracker.last_timestamp /= None
    /\ clock_tracker.last_timestamp /= Some(incoming.data.timestamp)

\* C9 (as claimed): a STATE packet whose ignitionState or controlState byte
\* is outside the enum still decodes; the value is reported and the loop
\* goes on to the next envelope.
C9_UnknownEnumNonFatal ==
    [][(Iterated /\ IsState(incoming') /\ incoming'.data.len >= RQ_STATE_SIZE
          /\ (\/ incoming'.data.body.ignition > IgnitionStateMax
              \/ incoming'.data.body.control > ControlStateMax)) =>
         /\ exc' = None /\ pc' = "loop" /\ step' = step + 1
         /\ logged' /= <<>>]_vars

\* C10 (as claimed): an IMU packet with a repeated sequence number is
\* recoverable: its clock output is discarded, the tracker is unmodified and
\* the loop goes on to the next envelope.
C10_RepeatedSeqRecoverable ==
    [][(FeedCalled /\ clock_tracker.last_seq = Some(incoming'.data.seq)) =>
         /\ pc' = "loop" /\ step' = step + 1
         /\ out' = <<>>
         /\ clock_tracker' = clock_tracker]_vars

\* ------------------------------------ two trackers, one tick stream
\* two ClockTrackers constructed with the same seed
InitTwin ==
    /\ monotonic \in HostSeconds
    /\ clock_tracker = ClockTracker_init(monotonic)
    /\ twin = Some(ClockTracker_init(monotonic))
    /\ self_a = None /\ self_b = None
    /\ args_count = None
    /\ step = 0 /\ pc = "loop" /\ exc = None
    /\ incoming = NoMessage
    /\ sent = 0 /\ out = <<>> /\ logged = <<>>
    /\ q = <<>> /\ reader = "none" /\ lines = <<>> /\ delivered = <<>>

\* ClockTracker.feed called on both trackers with the same tick and sequence,
\* each at a host time of its own; out holds the two results
FeedTwins ==
    /\ step < MaxSteps
    /\ \E ts \in Ticks, sq \in Seqs, h1 \in HostSeconds, h2 \in HostSeconds :
         /\ h1 >= monotonic
         /\ Get(twin).last_host /= None => h2 >= Get(Get(twin).last_host)
         /\ LET r1 == ClockTracker_feed(clock_tracker, h1, ts, sq)
                r2 == ClockTracker_feed(Get(twin), h2, ts, sq)
            IN  /\ clock_tracker' = r1.self
                /\ twin' = Some(r2.self)
                /\ out' = << [exc |-> r1.exc, ret |-> r1.ret],
                             [exc |-> r2.exc, ret |-> r2.ret] >>
                /\ monotonic' = h1
                /\ step' = step + 1
    /\ UNCHANGED <<self_a, self_b, args_count, pc, exc, incoming, sent, logged,
                   serial_vars>>

NextTwin == FeedTwins

SpecTwin == InitTwin /\ [][NextTwin]_vars

\* C11: two runs with the same seed and the same (deviceTick, deviceSeq)
\* pairs, fed at arbitrary different host times, return the same value (or
\* fail alike) at every feed call and hold the same tick, sequence and
\* mission time afterwards.
C11_HostIndependent ==
    twin /= None =>
      /\ clock_tracker.mcu_time = Get(twin).mcu_time
      /\ clock_tracker.last_timestamp = Get(twin).last_timestamp
      /\ clock_tracker.last_seq = Get(twin).last_seq
      /\ (out /= <<>> => out[1] = out[2])

\* C11 witness: after feeds that advanced the mission time, the two trackers
\* were last fed at different host times
C11_Witness ==
    /\ twin /= None
    /\ step >= 3
    /\ out /= <<>> /\ out[1].exc = None
    /\ clock_tracker.last_host /= Get(twin).last_host
    /\ clock_tracker.mcu_time.n /= 0

\* C12 (as claimed): the packet variant is selected by the low nibble of
\* byte 1 only: a payload whose byte 1 has high-nibble bits set is processed
\* exactly as the payload with those bits cleared.
C12_LowNibbleSelects ==
    [][(Iterated /\ incoming'.kind = "json" /\ incoming'.data.len >= 2
          /\ incoming'.data.packet_type >= 16) =>
         LET low == [incoming'.data EXCEPT !.packet_type = @ % 16]
             r   == MessageBuilder_feed(Builder, monotonic', incoming'.node, low)
         IN  /\ exc' = r.exc
             /\ clock_tracker' = r.clock_tracker
             /\ self_a' = r.a /\ self_b' = r.b
             /\ out' = r.out]_vars

\* ------------------------------------------------- the serial source
\* A line is the sequence of its characters; "CR" and "LF" stand for the two
\* characters of the line terminator.  A payload is here the list of its
\* bytes, as bytes.fromhex and json carry it.
MaxLines == 3

HexDigits == <<"0", "1", "2", "3", "4", "5", "6", "7",
               "8", "9", "a", "b", "c", "d", "e", "f">>

IsHexDigit(c) == \E i \in 1..16 : HexDigits[i] = c

HexValue(c) == (CHOOSE i \in 1..16 : HexDigits[i] = c) - 1

\* bytes.fromhex(text): None when it raises ValueError (a character that is
\* no hex digit, or an odd number of digits).  The texts of the model hold
\* no white space, which fromhex would skip.
fromhex(text) ==
    IF Len(text) % 2 /= 0 \/ \E i \in 1..Len(text) : ~IsHexDigit(text[i])
    THEN None
    ELSE Some([i \in 1..(Len(text) \div 2) |->
                 16 * HexValue(text[2 * i - 1]) + HexValue(text[2 * i])])

\* line.startswith(b"###")
startswith_marker(line) ==
    Len(line) >= 3 /\ line[1] = "#" /\ line[2] = "#" /\ line[3] = "#"

\* line[3:-2]
slice_3_m2(line) == SubSeq(line, 4, Len(line) - 2)

\* a variant that puts at the head of the queue
put_first(queue, j) == <<j>> \o queue

\* self._q.put(j): queue.Queue is first-in first-out
put(queue, j) == Append(queue, j)

\* data[i:i+2] as a little-endian int16 ("h"), i counted from 0
int16(data, i) ==
    LET v == data[i + 1] + Pow8 * data[i + 2]
    IN  IF v >= Pow16 \div 2 THEN v - Pow16 ELSE v

\* data[i:i+4] as a float32 ("f"), kept as its four bytes
float32(data, i) == SubSeq(data, i + 1, i + 4)

\* the payload record of a byte list: its length and the fields that
\* data[:2] and struct.unpack read from it (0 where the bytes are missing,
\* which the length tests keep from being read)
payload_of(data) ==
    LET n     == Len(data)
        u8(i) == IF n > i THEN data[i + 1] ELSE 0
        h(i)  == IF n >= i + 2 THEN int16(data, i) ELSE 0
        f(i)  == IF n >= i + 4 THEN float32(data, i) ELSE <<>>
    IN  [len |-> n, seq |-> u8(0), packet_type |-> u8(1),
         timestamp |-> <<u8(4) + Pow8 * u8(5), u8(2) + Pow8 * u8(3)>>,
         body |-> [ignition |-> u8(6), control |-> u8(7),
                   sense |-> <<h(8), h(10), h(12), h(14)>>,
                   imu |-> [acc_x |-> h(6), acc_y |-> h(8), acc_z |-> h(10),
                            gyr_x |-> h(12), gyr_y |-> h(14), gyr_z |-> h(16),
                            mag_x |-> h(18), mag_y |-> h(20), mag_z |-> h(22),
                            pressure |-> f(24), temperature |-> f(28)]]]

\* the hex text of a byte list, and the line the device sends for it
ToHex(data) ==
    [i \in 1..(2 * Len(data)) |->
       LET b == data[(i + 1) \div 2]
       IN  HexDigits[(IF i % 2 = 1 THEN b \div 16 ELSE b % 16) + 1]]

HexLine(data) == <<"#", "#", "#">> \o ToHex(data) \o <<"CR", "LF">>

\* the bytes of a STATE packet (RQ_STATE_FORMAT), tick 5
StateBytes(seq, ign, ctl) ==
    <<seq, STATE_PACKET, 5, 0, 0, 0, ign, ctl, 32, 3, 232, 3, 8, 0, 255, 255>>

\* packets the device sends: two STATE packets and a two-byte fragment
SerialPackets == {StateBytes(1, 4, 2), StateBytes(254, 0, 7), <<1, 1>>}

\* what readline() may return: the packets' lines, a line of other output
\* and a marked line whose text is no hex
SerialLines ==
    { HexLine(d) : d \in SerialPackets }
    \cup { <<"b", "o", "o", "t", "CR", "LF">>,
           <<"#", "#", "#", "z", "z", "CR", "LF">> }

\* main up to the loop, with --serial: SerialSocket.__init__ has started
\* the reader thread
InitSerial ==
    /\ q = <<>> /\ reader = "running" /\ lines = <<>> /\ delivered = <<>>
    /\ twin = None
    /\ monotonic \in HostSeconds
    /\ clock_tracker = ClockTracker_init(monotonic)
    /\ self_a = None /\ self_b = None
    /\ args_count \in {None, Some(CountLimit)}
    /\ step = 0 /\ pc = "loop" /\ exc = None
    /\ incoming = NoMessage
    /\ sent = 0 /\ out = <<>> /\ logged = <<>>

\* SerialSocket._reader: one turn of its loop; an exception ends the thread
ReadLine ==
    /\ reader = "running"
    /\ Len(lines) < MaxLines
    /\ \E line \in SerialLines :
         /\ lines' = Append(lines, line)
         /\ IF ~startswith_marker(line)
            THEN UNCHANGED <<q, reader>>
            ELSE LET data == fromhex(slice_3_m2(line))
                 IN  IF data = None
                     THEN reader' = "dead" /\ q' = q
                     ELSE /\ q' = put(q, Envelope("RQB", Get(data)))
                          /\ reader' = reader
    /\ UNCHANGED <<clock_tracker, self_a, self_b, args_count, step, pc, exc,
                   incoming, monotonic, sent, out, logged, delivered, twin>>

\* main: one iteration with the serial source: recv() is self._q.get(), which
\* blocks while the queue is empty
SerialIterate ==
    /\ Continues /\ step < MaxSteps
    /\ q /= <<>>
    /\ \E host \in HostSeconds :
         /\ host >= monotonic
         /\ LET msg == Head(q)
                r   == MessageBuilder_feed(Builder, host, msg.node,
                                           payload_of(msg.data))
            IN  /\ q' = Tail(q)
                /\ delivered' = Append(delivered, msg)
                /\ incoming' = Envelope(msg.node, payload_of(msg.data))
                /\ monotonic' = host
                /\ clock_tracker' = r.clock_tracker
                /\ self_a' = r.a
                /\ self_b' = r.b
                /\ out' = r.out
                /\ sent' = sent + Len(r.out)
                /\ logged' = r.logged
                /\ exc' = r.exc
                /\ pc' = IF r.exc = None THEN "loop" ELSE "crashed"
                /\ step' = IF r.exc = None THEN step + 1 ELSE step
    /\ UNCHANGED <<args_count, reader, lines, twin>>

NextSerial == ReadLine \/ SerialIterate \/ Break

SpecSerial == InitSerial /\ [][NextSerial]_vars

\* the line carries the marker and the hex text of one of the packets
CarriesPacket(line) == \E d \in SerialPackets : line = HexLine(d)

\* the message the consumer is to get for such a line
MessageOf(line) ==
    Envelope("RQB", CHOOSE d \in SerialPackets : line = HexLine(d))

\* the messages due for the lines in their order
RECURSIVE MessagesOf(_)
MessagesOf(ls) ==
    IF ls = <<>> THEN <<>>
    ELSE IF CarriesPacket(Head(ls))
         THEN <<MessageOf(Head(ls))>> \o MessagesOf(Tail(ls))
         ELSE MessagesOf(Tail(ls))

\* C13: with the serial source, the messages recv() has returned, followed by
\* those still queued, are exactly the messages of the marked lines the reader
\* has read, once each and in the order read; a line without the marker is
\* never delivered; the consumer takes the head of the queue only when the
\* queue is not empty, and never reads the port itself.
C13_FifoHandOff ==
    [][/\ delivered' \o q' = MessagesOf(lines')
       /\ \A i \in 1..Len(delivered') : delivered'[i].node = "RQB"
       /\ delivered' /= delivered =>
            /\ q /= <<>>
            /\ delivered' = Append(delivered, Head(q))
            /\ q' = Tail(q)
            /\ lines' = lines]_vars

\* C13 witness: three lines were read, one of them without the marker, and
\* the two packets were delivered in the order of their lines
C13_Witness ==
    /\ Len(lines) = 3
    /\ \E i \in 1..3 : ~startswith_marker(lines[i])
    /\ Len(delivered) = 2
    /\ delivered[1] /= delivered[2]
    /\ delivered = MessagesOf(lines)
    /\ exc = None

\* C14 (as claimed): a serial line whose hex text is invalid is dropped and
\* the pipeline continues: the reader goes on reading.
C14_BadLineDropped ==
    [][(lines' /= lines /\ startswith_marker(lines'[Len(lines')])
          /\ ~CarriesPacket(lines'[Len(lines')])) =>
         (reader' = "running" /\ q' = q)]_vars

\* the step fed the latch code an IMU packet of the given set from the
\* target node
Latched(packet_type) ==
    FeedReturned /\ FromTarget(incoming') /\ IsSet(incoming', packet_type)

\* C15: writing a set-A packet's data into latchedA leaves latchedB unchanged
\* and the other way round; a slot changes only when an IMU packet of its own
\* set label from the target node is fed.
C15_SlotFrame ==
    [][/\ Latched(IMU_SET_A_PACKET) =>
            (self_a' = Some(SampleOf(incoming')) /\ self_b' = self_b)
       /\ Latched(IMU_SET_B_PACKET) =>
            (self_b' = Some(SampleOf(incoming')) /\ self_a' = self_a)
       /\ self_a' /= self_a => Latched(IMU_SET_A_PACKET)
       /\ self_b' /= self_b => Latched(IMU_SET_B_PACKET)]_vars

\* C15 witness: a set-A packet was written into latchedA while latchedB holds
\* other data
C15_Witness ==
    /\ IsSet(incoming, IMU_SET_A_PACKET) /\ FromTarget(incoming) /\ exc = None
    /\ self_a = Some(SampleOf(incoming))
    /\ self_b /= None /\ self_b /= self_a

\* C16: the first ClockTracker.feed call returns the seed unchanged, whatever
\* its deviceTick and deviceSeq, and stores them as lastTick and lastSeq.
C16_FirstFeed ==
    [][(FeedCalled /\ clock_tracker.last_host = None) =>
         /\ exc' = None
         /\ clock_tracker.last_timestamp = None /\ clock_tracker.last_seq = None
         /\ clock_tracker'.mcu_time = clock_tracker.mcu_time
         /\ \E h \in HostSeconds : clock_tracker'.mcu_time = HostTime(h)
         /\ clock_tracker'.last_timestamp = Some(incoming'.data.timestamp)
         /\ clock_tracker'.last_seq = Some(incoming'.data.seq)
         /\ clock_tracker'.last_host = Some(monotonic')]_vars

\* C16 witness: the first feed call, with tick 4294967290 and sequence 254,
\* has returned the seed of 2 s
C16_Witness ==
    /\ step = 1 /\ IsImu(incoming) /\ exc = None
    /\ clock_tracker.mcu_time = HostTime(2)
    /\ clock_tracker.last_timestamp = Some(<<65535, 65530>>)
    /\ clock_tracker.last_seq = Some(254)

\* the fixed size of the packet layout the type byte selects
FixedSize(data) == IF data.packet_type = STATE_PACKET THEN RQ_STATE_SIZE ELSE RQ_SIZE

\* C17: a payload with trailing bytes after the fixed packet size is no error
\* and leaves the same tracker, latches and output as the payload cut to the
\* fixed size.
C17_TrailingBytes ==
    [][(Iterated /\ incoming'.kind = "json" /\ ~Malformed(incoming'.data)
          /\ incoming'.data.len > FixedSize(incoming'.data)) =>
         LET cut == [incoming'.data EXCEPT !.len = FixedSize(incoming'.data)]
             r   == MessageBuilder_feed(Builder, monotonic', incoming'.node, cut)
         IN  /\ exc' /= Some("struct.error")
             /\ exc' = r.exc
             /\ clock_tracker' = r.clock_tracker
             /\ self_a' = r.a /\ self_b' = r.b
             /\ out' = r.out /\ logged' = r.logged]_vars

\* C17 witness: an IMU packet of 40 bytes was decoded and latched
C17_Witness ==
    /\ IsSet(incoming, IMU_SET_A_PACKET) /\ incoming.data.len = 40
    /\ exc = None
    /\ self_a = Some(SampleOf(incoming))
    /\ clock_tracker.last_timestamp = Some(incoming.data.timestamp)

\* C18: with a message-count limit n the loop breaks after exactly n received
\* messages, those that fail JSON parsing included; without a limit it never
\* breaks.
C18_CountLimit ==
    [][/\ pc' = "done" => (args_count' /= None /\ step' = Get(args_count'))
       /\ args_count /= None => step' <= Get(args_count)
       /\ (args_count /= None /\ step >= Get(args_count)) =>
            (pc' = "done" /\ incoming' = incoming /\ delivered' = delivered)
       /\ (pc' = "loop" /\ incoming' = Garbage) =>
            (step' = step + 1 /\ clock_tracker' = clock_tracker)
       /\ args_count = None => pc' = pc \/ pc' = "crashed"]_vars

\* C18 witness: the loop has broken after n messages, the last of them one
\* that json.loads rejected
C18_Witness ==
    /\ pc = "done"
    /\ args_count = Some(CountLimit) /\ step = CountLimit
    /\ incoming = Garbage

\* C19: a published sample has both halves; its a-half is the data of a set-A
\* packet and its b-half that of a set-B packet of the target node (the
\* latches, which only such packets write); the half of the triggering
\* packet's set is that packet's data; rawTimestamp is its device tick and
\* missionTimestamp the value ClockTracker.feed returned for it. Once both
\* slots are latched every IMU packet of the target node publishes one sample.
C19_PublishedSample ==
    [][/\ sent' /= sent => (Iterated /\ out' /= <<>>)
       /\ (Iterated /\ out' /= <<>>) =>
            /\ Len(out') = 1 /\ sent' = sent + 1
            /\ FeedReturned /\ FromTarget(incoming')
            /\ self_a' /= None /\ self_b' /= None
            /\ out'[1].a = Get(self_a') /\ out'[1].b = Get(self_b')
            /\ IsSet(incoming', IMU_SET_A_PACKET) =>
                 (out'[1].a = SampleOf(incoming') /\ self_b' = self_b)
            /\ IsSet(incoming', IMU_SET_B_PACKET) =>
                 (out'[1].b = SampleOf(incoming') /\ self_a' = self_a)
            /\ out'[1].raw_timestamp = incoming'.data.timestamp
            /\ out'[1].timestamp = clock_tracker'.mcu_time
       /\ self_a' /= self_a =>
            (Latched(IMU_SET_A_PACKET) /\ self_a' = Some(SampleOf(incoming')))
       /\ self_b' /= self_b =>
            (Latched(IMU_SET_B_PACKET) /\ self_b' = Some(SampleOf(incoming')))
       /\ (self_a /= None /\ self_b /= None /\ FeedReturned /\ FromTarget(incoming'))
            => Len(out') = 1]_vars

\* C19 witness: with both slots latched a set-A packet has published a sample
\* of its own data and older, different set-B data
C19_Witness ==
    /\ sent >= 2 /\ Len(out) = 1
    /\ IsSet(incoming, IMU_SET_A_PACKET)
    /\ out[1].a = SampleOf(incoming)
    /\ out[1].b /= out[1].a
    /\ out[1].raw_timestamp = incoming.data.timestamp
    /\ out[1].timestamp = clock_tracker.mcu_time

\* C20: one ClockTracker serves all nodes: after any IMU packet fed without
\* error, lastTick and lastSeq are that packet's, whatever its node, and the
\* increment of the next packet, of the target node or not, is measured from
\* them.
C20_SharedTracker ==
    [][FeedReturned =>
         /\ clock_tracker'.last_timestamp = Some(incoming'.data.timestamp)
         /\ clock_tracker'.last_seq = Some(incoming'.data.seq)
         /\ clock_tracker.last_timestamp /= None =>
              clock_tracker'.mcu_time =
                TimeAdd(clock_tracker.mcu_time,
                        TimeDiv(TickDiff(incoming'.data.timestamp,
                                         Get(clock_tracker.last_timestamp)),
                                SeqDiff(incoming'.data.seq,
                                        Get(clock_tracker.last_seq))))]_vars

\* C20 witness: before the target node's first pair is complete, the tracker
\* holds the tick and sequence of another node's packet, from which the next
\* target-node packet will be measured
C20_Witness ==
    /\ IsImu(incoming) /\ ~FromTarget(incoming) /\ exc = None
    /\ clock_tracker.last_timestamp = Some(incoming.data.timestamp)
    /\ clock_tracker.last_seq = Some(incoming.data.seq)
    /\ self_a /= None /\ self_b = None /\ sent = 0
    /\ step >= 2
====
